---- MODULE Spec2Model ----
(***************************************************************************)
(* Leave / out-gate application workflow of app.py: the application store  *)
(* (table leave_applications), the notification log (table                 *)
(* notifications_log) and the decision processor process_action with its   *)
(* e-mail fan-out, and the submission form that creates the rows.  Under   *)
(* Spec and SpecForm calls are sequential and one action is one whole      *)
(* call; under SpecConc two process_action calls run statement by          *)
(* statement against the autocommit store.                                 *)
(***************************************************************************)
EXTENDS Integers, Sequences, FiniteSets, TLC

\* ------------------------------------------------------------------------
\* Bounds and input domains
\* ------------------------------------------------------------------------

\* The wall clock runs over 0..MaxTime.
MaxTime == 2

\* SQL NULL / Python None of a nullable value; a present value v is <<v>>.
NULL == <<>>

AppIds == {"A1", "A2"}

Tokens == {"t1", "t2", "t3"}

\* The (approve, reject) token pairs whose digests insert_application is
\* given as the stored hashes: two independently drawn secrets.
IssuedPairs == { <<"t1", "t2">> }

\* The deadline given as token_expires_at: one tick before the end of the
\* clock's range, so that calls before, at and after the deadline all happen.
Deadlines == {MaxTime - 1}

\* process_action takes any string as action.
Actions == {"approve", "reject", "deny"}

Notes == {NULL, <<"doctor's note pending">>}

ADMIN_EMAIL == "admin@woxsen.edu.in"

SECURITY_EMAIL == "security@woxsen.edu.in"

\* The request and contact part of the payload given for an id (ci_get yields "" for a
\* missing column): "A1" is the request of a student with only the mother's
\* e-mail on file, any other id that of a student with no parent e-mail.
Payloads(aid) ==
    IF aid = "A1"
      THEN { [reason |-> "family function",
              student_email |-> "student1@woxsen.edu.in", father_email |-> "",
              mother_email |-> "mother@example.com"] }
      ELSE { [reason |-> "medical appointment",
              student_email |-> "student2@woxsen.edu.in", father_email |-> "",
              mother_email |-> ""] }

\* The SMTP set-ups send_html tells apart: host or sender missing, the host
\* given as a URL, a host whose SMTP conversation raises, a host that
\* accepts the message.
SmtpConfigs == {"missing", "url", "down", "host"}

\* The store either executes every statement, or is one whose write
\* statements can raise and whose INSERT can fail to persist.
Stores == {"sound", "faulty"}

\* The callers of the statement-by-statement process_action.
Procs == {"p1", "p2"}

\* ------------------------------------------------------------------------
\* State
\* ------------------------------------------------------------------------

VARIABLES
    apps,       \* leave_applications: application_id -> row, for the ids stored
    log,        \* notifications_log, in insertion (id) order
    notified,   \* the invocations of send_decision_notifications, in order
    now,        \* datetime.now(IST)
    smtp,       \* which of SmtpConfigs the secrets and the network give
    ret,        \* the last call: its operation, application id and result
    call,       \* what the last process_action call met: see Observed
    store,      \* which of Stores the database is
    did,        \* the statements and calls the last call went through, in order
    writes,     \* application_id -> the functions that wrote the row, in order
    procs,      \* the statement-by-statement calls: see Idle
    run,        \* the last run of main: query parameters, button, page shown
    gate        \* the out-gate request app: widget values, page, request log

vars == <<apps, log, notified, now, smtp, ret, call, store, did, writes, procs, run, gate>>

\* _sha256: a one-way digest, injective on the tokens and never the token.
_sha256(s) == <<"sha256", s>>

NoCall == [op |-> "none", aid |-> "", msg |-> ""]

NoFacts == [status |-> "", expired |-> FALSE, matched |-> FALSE]

\* No run of main yet.
NoRun == [aid |-> "", action |-> "", token |-> "", confirm |-> FALSE, page |-> "none"]

\* The out-gate request app before its first run: empty widgets, no log file.
NoGate == [email |-> "", start_date |-> 0, end_date |-> 0, reason |-> "", uploaded |-> NULL,
           click |-> "none", page |-> "none", msg |-> "", rows |-> <<>>]

\* A caller that has not called yet.
Idle == [pc |-> "idle"]

\* Empty tables, no call made yet.
Start ==
    /\ apps = <<>>
    /\ log = <<>>
    /\ notified = <<>>
    /\ now = 0
    /\ smtp \in SmtpConfigs
    /\ ret = NoCall
    /\ call = NoFacts
    /\ did = <<>>
    /\ writes = <<>>
    /\ procs = [p \in Procs |-> Idle]
    /\ run = NoRun
    /\ gate = NoGate

Init ==
    /\ Start
    /\ store = "sound"

\* ------------------------------------------------------------------------
\* Store
\* ------------------------------------------------------------------------

\* The row the INSERT of insert_application writes.
NewRow(payload, aid, approve_hash, reject_hash, exp_iso, now_iso) ==
    [ application_id     |-> aid,
      status             |-> "PENDING",
      submitted_at       |-> now_iso,
      reason             |-> payload.reason,
      student_email      |-> payload.student_email,
      father_email       |-> payload.father_email,
      mother_email       |-> payload.mother_email,
      approve_token_hash |-> approve_hash,
      reject_token_hash  |-> reject_hash,
      token_expires_at   |-> exp_iso,
      decided_at         |-> NULL,
      decided_by         |-> NULL,
      admin_review_msgid |-> NULL ]

\* The store with row r written under id aid (a new id extends the table).
Put(table, aid, r) ==
    [a \in (DOMAIN table) \cup {aid} |-> IF a = aid THEN r ELSE table[a]]

ConflictsNever(table, aid) == FALSE

\* The PRIMARY KEY constraint on application_id.
Conflicts(table, aid) == aid \in DOMAIN table

\* What the INSERT of insert_application can do: "ok" writes the row,
\* "raises" raises, "lost" returns without the row being stored.
InsertOutcomes ==
    IF store = "sound" THEN {"ok"} ELSE {"ok", "raises", "lost"}

\* What the UPDATE of process_action can do.
UpdateOutcomes ==
    IF store = "sound" THEN {"ok"} ELSE {"ok", "raises"}

\* fetchone() of a SELECT by application_id: <<row>>, or <<>> for None.
ReadBack(table, aid) ==
    IF aid \in DOMAIN table THEN <<table[aid]>> ELSE <<>>

\* get_application: the row of the id as the store holds it, or None.
get_application(aid) == ReadBack(apps, aid)

ReadBackOkAlways(chk, aid) == TRUE

\* The verification of the read-back in insert_application.
ReadBackOk(chk, aid) ==
    /\ chk # <<>>
    /\ chk[1].application_id = aid
    /\ chk[1].status = "PENDING"
    /\ chk[1].submitted_at # <<>>

\* insert_application on a table, with outcome out of its INSERT: the table
\* afterwards, the exception raised (NULL when it returns), whether the row
\* was stored, and the statements gone through.
InsertResult(table, payload, aid, approve_hash, reject_hash, exp_iso, out) ==
    IF Conflicts(table, aid)
      THEN [apps |-> table, raised |-> <<"IntegrityError">>, stored |-> FALSE,
            did |-> <<"INSERT raised", "close">>]
    ELSE IF out = "raises"
      THEN [apps |-> table, raised |-> <<"OperationalError">>, stored |-> FALSE,
            did |-> <<"INSERT raised", "close">>]
    ELSE LET written == IF out = "lost"
                          THEN table
                          ELSE Put(table, aid, NewRow(payload, aid, approve_hash, reject_hash,
                                                      exp_iso, <<now>>))
             chk == ReadBack(written, aid)
         IN  [apps |-> written,
              raised |-> IF ReadBackOk(chk, aid) THEN NULL ELSE <<"RuntimeError">>,
              stored |-> out # "lost",
              did |-> IF ReadBackOk(chk, aid)
                        THEN <<"INSERT", "SELECT", "close">>
                        ELSE <<"INSERT", "SELECT", "close", "raise">>]

\* The writers ws of the rows, with writer w added for id aid.
WroteTo(ws, aid, w) ==
    [a \in (DOMAIN ws) \cup {aid} |->
        IF a = aid THEN (IF a \in DOMAIN ws THEN ws[a] ELSE <<>>) \o <<w>> ELSE ws[a]]

Wrote(aid, w) == WroteTo(writes, aid, w)

\* insert_application: the INSERT fails on an existing primary key and the
\* exception leaves the table as it was; otherwise the row is written and
\* read back, and a read-back that does not show it raises RuntimeError.
insert_application(payload, aid, approve_hash, reject_hash, exp_iso) ==
    /\ \E out \in InsertOutcomes :
          LET r == InsertResult(apps, payload, aid, approve_hash, reject_hash, exp_iso, out)
          IN  /\ apps' = r.apps
              /\ ret' = [op |-> "insert_application", aid |-> aid,
                         msg |-> IF r.raised = NULL THEN "ok" ELSE r.raised[1]]
              /\ did' = r.did
              /\ writes' = IF r.stored THEN Wrote(aid, "insert_application") ELSE writes
    /\ UNCHANGED <<log, notified, now, smtp, store, procs, gate>>

\* ------------------------------------------------------------------------
\* E-mail
\* ------------------------------------------------------------------------

\* log_email: the row appended to notifications_log.
log_email(application_id, channel, recipient, subject, status, error) ==
    [ application_id |-> application_id, channel |-> channel, recipient |-> recipient,
      subject |-> subject, sent_at |-> now, status |-> status, error |-> error ]

LoggedInPlace(entries) ==
    IF entries = <<>> THEN log ELSE entries

\* notifications_log after the INSERTs of log_email for the entries, in
\* order: the table has an autoincrement key and rows are only inserted.
Logged(entries) == log \o entries

send_htmlSkipOk(to, subject, channel, application_id) ==
    IF smtp \in {"missing", "host"}
      THEN [ok |-> TRUE, msgid |-> <<"msgid", application_id, channel>>,
            entry |-> log_email(application_id, channel, to, subject,
                                IF smtp = "host" THEN "SENT" ELSE "SKIPPED_NO_SMTP", NULL)]
      ELSE [ok |-> FALSE, msgid |-> NULL,
            entry |-> log_email(application_id, channel, to, subject, "FAILED", <<"send raised">>)]

\* send_html: the result (ok, message id) and the one log row of a send.
send_html(to, subject, channel, application_id) ==
    IF smtp = "missing"
      THEN [ok |-> FALSE, msgid |-> NULL,
            entry |-> log_email(application_id, channel, to, subject, "SKIPPED_NO_SMTP", NULL)]
    ELSE IF smtp = "url"
      THEN [ok |-> FALSE, msgid |-> NULL,
            entry |-> log_email(application_id, channel, to, subject, "FAILED", <<"SMTP_HOST must be a hostname">>)]
    ELSE IF smtp = "down"
      THEN [ok |-> FALSE, msgid |-> NULL,
            entry |-> log_email(application_id, channel, to, subject, "FAILED", <<"send raised">>)]
      ELSE [ok |-> TRUE, msgid |-> <<"msgid", application_id, channel>>,
            entry |-> log_email(application_id, channel, to, subject, "SENT", NULL)]

DecisionMailsSecurityAlways(a_row, status) ==
    LET parent_email == IF a_row.father_email # "" THEN a_row.father_email ELSE a_row.mother_email
        parent(subject) == IF parent_email # "" THEN << <<"parent", parent_email, subject>> >> ELSE <<>>
    IN  << <<"admin_confirm", ADMIN_EMAIL, "Re: New Leave Application">>,
           <<"security", SECURITY_EMAIL, "Approved Leave">> >>
        \o parent("Leave Decision")
        \o << <<"student", a_row.student_email, "Your Leave Request - Decision">> >>

\* The (channel, recipient, subject) of each mail send_decision_notifications
\* sends for a row and a status, in the order of the sends.
DecisionMails(a_row, status) ==
    LET parent_email == IF a_row.father_email # "" THEN a_row.father_email ELSE a_row.mother_email
        parent(subject) == IF parent_email # "" THEN << <<"parent", parent_email, subject>> >> ELSE <<>>
    IN  << <<"admin_confirm", ADMIN_EMAIL, "Re: New Leave Application">> >>
        \o (IF status = "APPROVED"
              THEN << <<"security", SECURITY_EMAIL, "Approved Leave">> >>
                   \o parent("Leave Approved")
                   \o << <<"student", a_row.student_email, "Your Leave is Approved">> >>
              ELSE parent("Leave Decision")
                   \o << <<"student", a_row.student_email, "Your Leave Request - Decision">> >>)

send_decision_notificationsStopping(a_row, status) ==
    LET mails == DecisionMails(a_row, status)
        sent == [i \in 1..Len(mails) |->
                    send_html(mails[i][2], mails[i][3], mails[i][1], a_row.application_id)]
    IN  IF sent[1].ok THEN [i \in 1..Len(mails) |-> sent[i].entry] ELSE <<sent[1].entry>>

\* send_decision_notifications: the log rows its sends append.
send_decision_notifications(a_row, status) ==
    LET mails == DecisionMails(a_row, status)
    IN  [i \in 1..Len(mails) |->
            send_html(mails[i][2], mails[i][3], mails[i][1], a_row.application_id).entry]

\* ------------------------------------------------------------------------
\* Decision processor
\* ------------------------------------------------------------------------

MsgNotFoundGeneric == "This leave application has already been processed."

MsgNotFoundStale == "This action has already been processed or the token has expired."

MsgNotFound == "Application not found."

MsgProcessed == "This leave application has already been processed."

MsgExpired == "This action has already been processed or the token has expired."

MsgMismatchTelling == "Invalid token."

MsgMismatch == "This action has already been processed or the token has expired."

MsgDone(new_status) ==
    IF new_status = "APPROVED" THEN "Leave application approved." ELSE "Leave application rejected."

Returned(aid, msg) ==
    [op |-> "process_action", aid |-> aid, msg |-> msg]

IsProcessedNever(row) == FALSE

IsProcessedOnlyApproved(row) == row.status = "APPROVED"

IsProcessedOnlyRejected(row) == row.status = "REJECTED"

\* The terminal-status test on the row read.
IsProcessed(row) == row.status \in {"APPROVED", "REJECTED"}

IsExpiredNever(row) == FALSE

IsExpiredAtDeadline(row) == now >= row.token_expires_at

\* The expiry test on the row read.
IsExpired(row) == now > row.token_expires_at

ExpectedAnyAction(row, action) == row.approve_token_hash

ExpectedSwapped(row, action) ==
    IF action = "approve" THEN row.reject_token_hash ELSE row.approve_token_hash

\* The hash a presented token is compared with.
Expected(row, action) ==
    IF action = "approve" THEN row.approve_token_hash ELSE row.reject_token_hash

NewStatusApprovingUnlessReject(action) ==
    IF action = "reject" THEN "REJECTED" ELSE "APPROVED"

NewStatusSwapped(action) ==
    IF action = "approve" THEN "REJECTED" ELSE "APPROVED"

\* The status a passing call writes.
NewStatus(action) ==
    IF action = "approve" THEN "APPROVED" ELSE "REJECTED"

PassedNoteDropped(action, rejection_note) == NULL

\* The note a passing call hands to send_decision_notifications.
PassedNote(action, rejection_note) ==
    IF action = "reject" THEN rejection_note ELSE NULL

DecidedUnstamped(row, new_status) ==
    [row EXCEPT !.status = new_status]

StampedSpendingTokens(row, new_status, t) ==
    [row EXCEPT !.status = new_status, !.decided_at = <<t>>, !.decided_by = <<ADMIN_EMAIL>>,
                !.approve_token_hash = NULL, !.reject_token_hash = NULL]

\* The row after UPDATE ... SET status, decided_at, decided_by, with the
\* time t the call read at its start.
Stamped(row, new_status, t) ==
    [row EXCEPT !.status = new_status, !.decided_at = <<t>>, !.decided_by = <<ADMIN_EMAIL>>]

\* The row after the UPDATE of a passing call.
Decided(row, new_status) == Stamped(row, new_status, now)

SetWhereAll(table, aid, r) ==
    [a \in DOMAIN table |->
        [table[a] EXCEPT !.status = r.status, !.decided_at = r.decided_at,
                         !.decided_by = r.decided_by]]

\* The table after UPDATE leave_applications SET ... WHERE application_id = aid,
\* r being the row of that id with the SET clause applied.
SetWhere(table, aid, r) ==
    [a \in DOMAIN table |-> IF a = aid THEN r ELSE table[a]]

\* update_status on a table: the same UPDATE as that of process_action, with
\* no check before it.
update_status(table, aid, new_status) ==
    IF aid \in DOMAIN table
      THEN SetWhere(table, aid, Stamped(table[aid], new_status, now))
      ELSE table

PassResultSwallowing(row, action, rejection_note, out) ==
    [row |-> IF out = "raises" THEN row ELSE Decided(row, NewStatus(action)),
     notify |-> TRUE,
     msg |-> MsgDone(NewStatus(action)),
     did |-> IF out = "raises"
               THEN <<"SELECT", "UPDATE raised", "SELECT", "close", "notify">>
               ELSE <<"SELECT", "UPDATE", "SELECT", "close", "notify">>]

\* A call that passed every check, with outcome out of its UPDATE: the row
\* afterwards, whether send_decision_notifications is invoked, the message
\* returned or the exception raised, and the statements gone through.
PassResult(row, action, rejection_note, out) ==
    IF out = "raises"
      THEN [row |-> row, notify |-> FALSE, msg |-> "OperationalError",
            did |-> <<"SELECT", "UPDATE raised", "close">>]
      ELSE [row |-> Decided(row, NewStatus(action)), notify |-> TRUE,
            msg |-> MsgDone(NewStatus(action)),
            did |-> <<"SELECT", "UPDATE", "SELECT", "close", "notify">>]

process_action(aid, token, action, rejection_note) ==
    /\ IF aid \notin DOMAIN apps
         THEN /\ ret' = Returned(aid, MsgNotFound)
              /\ did' = <<"SELECT", "close">>
              /\ UNCHANGED <<apps, log, notified, writes>>
       ELSE IF IsProcessed(apps[aid])
         THEN /\ ret' = Returned(aid, MsgProcessed)
              /\ did' = <<"SELECT", "close">>
              /\ UNCHANGED <<apps, log, notified, writes>>
       ELSE IF IsExpired(apps[aid])
         THEN /\ ret' = Returned(aid, MsgExpired)
              /\ did' = <<"SELECT", "close">>
              /\ UNCHANGED <<apps, log, notified, writes>>
       ELSE IF _sha256(token) # Expected(apps[aid], action)
         THEN /\ ret' = Returned(aid, MsgMismatch)
              /\ did' = <<"SELECT", "close">>
              /\ UNCHANGED <<apps, log, notified, writes>>
       ELSE \E out \in UpdateOutcomes :
              LET r == PassResult(apps[aid], action, rejection_note, out)
                  new_status == NewStatus(action)
                  a_row == r.row
              IN  /\ apps' = SetWhere(apps, aid, a_row)
                  /\ writes' = IF a_row # apps[aid] THEN Wrote(aid, "process_action") ELSE writes
                  /\ notified' = IF r.notify
                                   THEN Append(notified,
                                               [a_row |-> a_row, status |-> new_status,
                                                rejection_note |-> PassedNote(action, rejection_note)])
                                   ELSE notified
                  /\ log' = IF r.notify
                              THEN Logged(send_decision_notifications(a_row, new_status))
                              ELSE log
                  /\ ret' = Returned(aid, r.msg)
                  /\ did' = r.did
    /\ UNCHANGED <<now, smtp, store, procs, gate>>

\* ------------------------------------------------------------------------
\* Decision processor, statement by statement
\* ------------------------------------------------------------------------

StoppedTokenFirst(read, token, action) ==
    IF read = <<>> THEN <<MsgNotFound>>
    ELSE IF _sha256(token) # Expected(read[1], action) THEN <<MsgMismatch>>
    ELSE IF now > read[1].token_expires_at THEN <<MsgExpired>>
    ELSE IF IsProcessed(read[1]) THEN <<MsgProcessed>>
    ELSE NULL

\* The message of the check that stops a call on the row read (<<row>> or
\* <<>>), NULL when the call passes every check.
Stopped(read, token, action) ==
    IF read = <<>> THEN <<MsgNotFound>>
    ELSE IF IsProcessed(read[1]) THEN <<MsgProcessed>>
    ELSE IF IsExpired(read[1]) THEN <<MsgExpired>>
    ELSE IF _sha256(token) # Expected(read[1], action) THEN <<MsgMismatch>>
    ELSE NULL

AfterNotifyingInside(pc) ==
    CASE pc = "update"   -> "reselect"
      [] pc = "reselect" -> "notify"
      [] pc = "notify"   -> "close"
      [] pc = "close"    -> "done"

\* The statement after each statement of a passing call: UPDATE, SELECT *,
\* the end of the with block, send_decision_notifications, return.
After(pc) ==
    CASE pc = "update"   -> "reselect"
      [] pc = "reselect" -> "close"
      [] pc = "close"    -> "notify"
      [] pc = "notify"   -> "done"

UpdateAppliesWhenPending(row) == row.status = "PENDING"

\* The rows of the id that the UPDATE writes: WHERE names the id only.
UpdateApplies(row) == TRUE

\* Caller p enters process_action: the clock is read, the connection
\* opened, the row selected and the checks made on what was read.  A call
\* that stops returns its message, which closes the connection.
Begin(p, aid, token, action, rejection_note) ==
    /\ procs[p].pc = "idle"
    /\ LET read == ReadBack(apps, aid)
           stop == Stopped(read, token, action)
       IN  procs' = [procs EXCEPT ![p] =
                        [pc |-> IF stop = NULL THEN "update" ELSE "done",
                         aid |-> aid, token |-> token, action |-> action,
                         rejection_note |-> rejection_note,
                         now |-> now, row |-> read, a_row |-> NULL,
                         con |-> IF stop = NULL THEN "open" ELSE "closed",
                         updated |-> FALSE, notified |-> FALSE,
                         alone |-> \A q \in Procs \ {p} : procs[q].pc \in {"idle", "done"},
                         msg |-> stop]]
    /\ UNCHANGED <<apps, log, notified, now, smtp, ret, call, store, did, writes, run, gate>>

\* The UPDATE of caller p, committed at once.
Update(p) ==
    /\ procs[p].pc = "update"
    /\ LET me == procs[p]
           applies == me.aid \in DOMAIN apps /\ UpdateApplies(apps[me.aid])
       IN  /\ apps' = IF applies
                        THEN SetWhere(apps, me.aid,
                                      Stamped(apps[me.aid], NewStatus(me.action), me.now))
                        ELSE apps
           /\ writes' = IF applies THEN Wrote(me.aid, "process_action") ELSE writes
           /\ procs' = [procs EXCEPT ![p].pc = After("update"), ![p].updated = TRUE]
    /\ UNCHANGED <<log, notified, now, smtp, ret, call, store, did, run, gate>>

\* The SELECT * of caller p after its UPDATE.
Reselect(p) ==
    /\ procs[p].pc = "reselect"
    /\ procs' = [procs EXCEPT ![p].pc = After("reselect"),
                              ![p].a_row = ReadBack(apps, procs[p].aid)]
    /\ UNCHANGED <<apps, log, notified, now, smtp, ret, call, store, did, writes, run, gate>>

\* Caller p leaves the with block: db() closes the connection.
Close(p) ==
    /\ procs[p].pc = "close"
    /\ procs' = [procs EXCEPT ![p].pc = After("close"), ![p].con = "closed"]
    /\ UNCHANGED <<apps, log, notified, now, smtp, ret, call, store, did, writes, run, gate>>

\* send_decision_notifications of caller p, with the row it re-read and its
\* own new status; the success message is the next statement.
Notify(p) ==
    /\ procs[p].pc = "notify"
    /\ LET me == procs[p]
           new_status == NewStatus(me.action)
       IN  /\ notified' = Append(notified,
                                  [a_row |-> me.a_row[1], status |-> new_status,
                                   rejection_note |-> PassedNote(me.action, me.rejection_note)])
           /\ log' = Logged(send_decision_notifications(me.a_row[1], new_status))
           /\ procs' = [procs EXCEPT ![p].pc = After("notify"), ![p].notified = TRUE,
                                     ![p].msg = <<MsgDone(new_status)>>]
    /\ UNCHANGED <<apps, now, smtp, ret, call, store, did, writes, run, gate>>

\* ------------------------------------------------------------------------
\* Submission form
\* ------------------------------------------------------------------------

\* TOKEN_TTL_HOURS, in steps of the clock.
TokenTtl == 1

MsgInvalid == "invalid form"

MsgPersistFailed == "Failed to persist your application. Please try again."

MsgSubmitted == "Application submitted. Admin has been notified via email."

\* send_admin_review_email on a table, with outcome out of its UPDATE: one
\* send to the admin, and the Message-ID stored on the row when the send
\* succeeded.
send_admin_review_email(table, aid, out) ==
    LET mail == send_html(ADMIN_EMAIL, "New Leave Application", "admin", aid)
    IN  IF mail.ok /\ mail.msgid # NULL
          THEN IF out = "raises"
                 THEN [apps |-> table, entry |-> mail.entry, raised |-> <<"OperationalError">>,
                       wrote |-> FALSE,
                       did |-> <<"send_admin_review_email", "UPDATE raised", "close">>]
                 ELSE [apps |-> IF aid \in DOMAIN table
                                  THEN [table EXCEPT ![aid].admin_review_msgid = mail.msgid]
                                  ELSE table,
                       entry |-> mail.entry, raised |-> NULL,
                       wrote |-> aid \in DOMAIN table,
                       did |-> <<"send_admin_review_email", "UPDATE", "close">>]
          ELSE [apps |-> table, entry |-> mail.entry, raised |-> NULL, wrote |-> FALSE,
                did |-> <<"send_admin_review_email">>]

PersistedAlways(r) == TRUE

\* The try block around insert_application: an exception ends the run.
Persisted(r) == r.raised = NULL

\* submission_form after "Submit Application": the validations, then
\* insert_application with fresh tokens and the deadline now + TOKEN_TTL_HOURS,
\* then send_admin_review_email and the success message.
submission_form(valid, payload, aid, approve_token, reject_token) ==
    /\ IF ~valid
         THEN /\ ret' = [op |-> "submission_form", aid |-> "", msg |-> MsgInvalid]
              /\ did' = <<>>
              /\ UNCHANGED <<apps, log, writes>>
         ELSE \E out \in InsertOutcomes, upd \in UpdateOutcomes :
                LET r == InsertResult(apps, payload, aid, _sha256(approve_token),
                                      _sha256(reject_token), now + TokenTtl, out)
                    w == IF r.stored THEN Wrote(aid, "insert_application") ELSE writes
                    m == send_admin_review_email(r.apps, aid, upd)
                IN  IF ~Persisted(r)
                      THEN /\ apps' = r.apps
                           /\ writes' = w
                           /\ log' = log
                           /\ did' = r.did
                           /\ ret' = [op |-> "submission_form", aid |-> aid, msg |-> MsgPersistFailed]
                      ELSE /\ apps' = m.apps
                           /\ writes' = IF m.wrote THEN WroteTo(w, aid, "send_admin_review_email") ELSE w
                           /\ log' = Logged(<<m.entry>>)
                           /\ did' = r.did \o m.did
                           /\ ret' = [op |-> "submission_form", aid |-> aid,
                                      msg |-> IF m.raised = NULL THEN MsgSubmitted ELSE m.raised[1]]
    /\ UNCHANGED <<notified, now, smtp, store, procs, gate>>

\* ------------------------------------------------------------------------
\* Environment and specification
\* ------------------------------------------------------------------------

\* What a process_action call meets, read off the state before the call and
\* the arguments: the status stored under the id ("ABSENT" without a row),
\* whether the deadline has passed, and whether
\* the token's digest is the hash stored for the action.
Observed(aid, token, action) ==
    IF aid \notin DOMAIN apps
      THEN [status |-> "ABSENT", expired |-> FALSE, matched |-> FALSE]
      ELSE [status  |-> apps[aid].status,
            expired |-> now > apps[aid].token_expires_at,
            matched |-> IF action = "approve"
                          THEN _sha256(token) = apps[aid].approve_token_hash
                          ELSE _sha256(token) = apps[aid].reject_token_hash]

OnApprovalRouteAnyAction(aid, action, token) ==
    aid # "" /\ action # "" /\ token # ""

\* The test of approval_route on the query parameters ("" for a missing
\* one): the run is on the approval route.
OnApprovalRoute(aid, action, token) ==
    aid # "" /\ action \in {"approve", "reject"} /\ token # ""

\* The page of an approval link that was opened, its button not clicked.
ConfirmShown(aid) == [op |-> "approval_route", aid |-> aid, msg |-> "please confirm this action"]

\* The submission form shown, its button not clicked.
FormShown == [op |-> "submission_form", aid |-> "", msg |-> "form shown"]

\* One run of main with the query parameters aid, action, t of the URL:
\* on the approval route the confirmation page is shown, and process_action
\* is called when its Confirm button was clicked; otherwise approval_route
\* returns False and the submission form runs, submitting when its button
\* was clicked.
main(aid, action, token, confirm, rejection_note, submit, valid, payload, application_id, pair) ==
    IF OnApprovalRoute(aid, action, token)
      THEN /\ run' = [aid |-> aid, action |-> action, token |-> token, confirm |-> confirm,
                      page |-> "confirm"]
           /\ IF confirm
                THEN /\ process_action(aid, token, action, rejection_note)
                     /\ call' = Observed(aid, token, action)
                ELSE /\ ret' = ConfirmShown(aid)
                     /\ call' = NoFacts
                     /\ did' = <<>>
                     /\ UNCHANGED <<apps, log, notified, writes, now, smtp, store, procs, gate>>
      ELSE /\ run' = [aid |-> aid, action |-> action, token |-> token, confirm |-> confirm,
                      page |-> "form"]
           /\ call' = NoFacts
           /\ IF submit
                THEN submission_form(valid, payload, application_id, pair[1], pair[2])
                ELSE /\ ret' = FormShown
                     /\ did' = <<>>
                     /\ UNCHANGED <<apps, log, notified, writes, now, smtp, store, procs, gate>>

\* The wall clock advances between calls.
Tick ==
    /\ now < MaxTime
    /\ now' = now + 1
    /\ UNCHANGED <<apps, log, notified, smtp, ret, call, store, did, writes, procs, run, gate>>

Insert ==
    \E aid \in AppIds, pair \in IssuedPairs, exp \in Deadlines : \E payload \in Payloads(aid) :
        /\ insert_application(payload, aid, _sha256(pair[1]), _sha256(pair[2]), exp)
        /\ call' = NoFacts
        /\ UNCHANGED run

Process ==
    \E aid \in AppIds, token \in Tokens, action \in Actions, note \in Notes :
        /\ process_action(aid, token, action, note)
        /\ call' = Observed(aid, token, action)
        /\ UNCHANGED run

Next == Tick \/ Insert \/ Process

Spec == Init /\ [][Next]_vars

\* The same calls against a store whose writes can fail.
InitFault ==
    /\ Start
    /\ store = "faulty"

SpecFault == InitFault /\ [][Next]_vars

\* The ids generate_numeric_id_from_uuid draws for the form: a second draw
\* of the same id is the collision of two generated ids.
FormIds == {"A1"}

\* The links of the admin review e-mail of application A1, the same links
\* with the tokens exchanged, a call with an action that is neither, and one
\* link for an application that does not exist.
Links == { <<"A1", "t1", "approve">>, <<"A1", "t2", "reject">>, <<"A1", "t2", "approve">>,
           <<"A1", "t1", "reject">>, <<"A1", "t2", "deny">>, <<"A2", "t1", "approve">> }

\* The store holds application A1 as insert_application left it at time 0.
InitConc ==
    /\ apps = Put(<<>>, "A1", NewRow(CHOOSE payload \in Payloads("A1") : TRUE, "A1",
                                     _sha256("t1"), _sha256("t2"), MaxTime - 1, <<0>>))
    /\ writes = Put(<<>>, "A1", <<"insert_application">>)
    /\ log = <<>>
    /\ notified = <<>>
    /\ now = 0
    /\ smtp \in SmtpConfigs
    /\ ret = NoCall
    /\ call = NoFacts
    /\ did = <<>>
    /\ store = "sound"
    /\ procs = [p \in Procs |-> Idle]
    /\ run = NoRun
    /\ gate = NoGate

\* A caller opens a link and confirms.
Enter ==
    \E p \in Procs, link \in Links, note \in Notes :
        Begin(p, link[1], link[2], link[3], note)

\* A caller in a call executes its next statement.
Step ==
    \E p \in Procs : Update(p) \/ Reselect(p) \/ Close(p) \/ Notify(p)

NextConc == Tick \/ Enter \/ Step

\* Two callers, each making one call, their statements interleaved.
SpecConc == InitConc /\ [][NextConc]_vars

\* The values a query parameter of the URL takes, "" when it is missing.
QueryIds == {"", "A1"}

QueryActions == {"", "approve", "reject", "deny"}

QueryTokens == {"", "t1", "t2"}

\* A browser loads the app: any URL, either button clicked or none.  The
\* inputs a run does not read are not varied: the note off the confirmed
\* approval route, the form's button and fields on the approval route.
Main ==
    \E aid \in QueryIds, action \in QueryActions, token \in QueryTokens, confirm \in BOOLEAN :
      LET route == OnApprovalRoute(aid, action, token)
      IN  \E note \in (IF route /\ confirm THEN Notes ELSE {NULL}),
             submit \in (IF route THEN {FALSE} ELSE BOOLEAN) :
            \E valid \in (IF submit THEN BOOLEAN ELSE {FALSE}),
               application_id \in FormIds, pair \in IssuedPairs :
              \E payload \in Payloads(application_id) :
                main(aid, action, token, confirm, note, submit, valid, payload,
                     application_id, pair)

NextMain == Tick \/ Main

\* The app as the browser reaches it, against the sound store.
SpecMain == Init /\ [][NextMain]_vars

\* A submission of the form, valid or not.
Submit ==
    \E valid \in BOOLEAN, aid \in FormIds, pair \in IssuedPairs : \E payload \in Payloads(aid) :
        /\ submission_form(valid, payload, aid, pair[1], pair[2])
        /\ call' = NoFacts
        /\ UNCHANGED run

InitForm ==
    /\ Start
    /\ store \in Stores

NextForm == Tick \/ Submit \/ Process

\* The rows come from the form, the store sound or faulty.
SpecForm == InitForm /\ [][NextForm]_vars

\* ------------------------------------------------------------------------
\* Out-gate request app (test_fetch.py)
\* ------------------------------------------------------------------------

\* A day is a step of the clock: TODAY is now.  MAX_DURATION_DAYS and
\* MAX_FUTURE_DAYS in days of the model.
MaxDurationDays == 2

MaxFutureDays == 1

MIN_REASON_LEN == 10

\* The e-mail addresses typed: empty, well-formed and unknown, well-formed
\* and in the master CSV.
GateEmails == {"", "nobody@woxsen.edu.in", "student1@woxsen.edu.in"}

validate_email(email) == email \in {"nobody@woxsen.edu.in", "student1@woxsen.edu.in"}

find_student_by_email(email) == IF email = "student1@woxsen.edu.in" THEN <<email>> ELSE <<>>

\* The dates picked, in days of the clock.
GateDates == 0..2

\* The reasons typed, by stripped length and presence of a control character.
GateReasons == { [len |-> 3, ctrl |-> FALSE], [len |-> 19, ctrl |-> FALSE],
                 [len |-> 19, ctrl |-> TRUE] }

MAX_UPLOAD_MB == 5

\* The files uploaded: none, a document, a file too large and of another
\* type.
GateUploads == { NULL, <<[name |-> "note.pdf", ext |-> "pdf", mb |-> 1]>>,
                 <<[name |-> "tool.exe", ext |-> "exe", mb |-> 6]>> }

GateSubmitted == "Request submitted successfully."

GatePreview == "All checks passed. Review the details below and submit your request."

\* The errors the validation collects for the widget values, in a set.
GateErrors(email, start_date, end_date, reason, uploaded) ==
    (IF ~validate_email(email) THEN {"Enter a valid email address."}
     ELSE IF find_student_by_email(email) = <<>>
       THEN {"No student found for the provided email."} ELSE {})
    \cup (IF end_date < start_date THEN {"End date cannot be before start date."} ELSE {})
    \cup (IF (end_date - start_date) + 1 > MaxDurationDays THEN {"duration"} ELSE {})
    \cup (IF start_date < now \/ end_date < now THEN {"Dates cannot be in the past."} ELSE {})
    \cup (IF end_date > now + MaxFutureDays THEN {"End date too late."} ELSE {})
    \cup (IF reason.len < MIN_REASON_LEN THEN {"Reason too short."} ELSE {})
    \cup (IF reason.ctrl THEN {"Reason contains invalid control characters."} ELSE {})
    \cup (IF uploaded # NULL /\ uploaded[1].mb > MAX_UPLOAD_MB
            THEN {"Uploaded file too large."} ELSE {})
    \cup (IF uploaded # NULL /\ uploaded[1].ext \notin {"pdf", "png", "jpg", "jpeg"}
            THEN {"Unsupported file type uploaded."} ELSE {})

\* The row append_log writes for a request.
GateEntry(email, start_date, end_date, uploaded) ==
    [ timestamp |-> now, student_email |-> email, from_date |-> start_date,
      to_date |-> end_date, upload_name |-> IF uploaded = NULL THEN "" ELSE uploaded[1].name,
      status |-> "Submitted" ]

\* One run of the script.  click is the button whose click triggered the
\* run ("none" for any other rerun); the widget values are those of the
\* session.  'Validate & Preview' reads True in the run its click triggered
\* only; 'Submit Out-Gate Request' is created, and read, inside the preview
\* block only.
outgate_app(click, email, start_date, end_date, reason, uploaded) ==
    LET submitted == click = "validate"
        errors == GateErrors(email, start_date, end_date, reason, uploaded)
        student_row == IF submitted /\ validate_email(email)
                         THEN find_student_by_email(email) ELSE <<>>
        valid == submitted /\ errors = {}
        preview == valid /\ student_row # <<>>
        pressed == preview /\ click = "submit"
    IN  gate' = [ email |-> email, start_date |-> start_date, end_date |-> end_date,
                  reason |-> reason, uploaded |-> uploaded, click |-> click,
                  page |-> IF preview THEN "preview" ELSE IF submitted THEN "errors" ELSE "form",
                  msg |-> IF pressed THEN GateSubmitted
                          ELSE IF preview THEN GatePreview ELSE "",
                  rows |-> IF pressed
                             THEN Append(gate.rows, GateEntry(email, start_date, end_date, uploaded))
                             ELSE gate.rows ]

\* The user clicks 'Validate & Preview' with any values in the form, clicks
\* 'Submit Out-Gate Request' where the last run showed it, or the script
\* reruns for another reason with the values of the session.
GateRun ==
    /\ \/ \E email \in GateEmails, start_date \in GateDates, end_date \in GateDates,
             reason \in GateReasons, uploaded \in GateUploads :
               outgate_app("validate", email, start_date, end_date, reason, uploaded)
       \/ /\ gate.page = "preview"
          /\ outgate_app("submit", gate.email, gate.start_date, gate.end_date, gate.reason,
                         gate.uploaded)
       \/ /\ gate.page # "none"
          /\ outgate_app("none", gate.email, gate.start_date, gate.end_date, gate.reason,
                         gate.uploaded)
    /\ UNCHANGED <<apps, log, notified, now, smtp, ret, call, store, did, writes, procs, run>>

NextGate == Tick \/ GateRun

\* The out-gate request app alone.
SpecGate == Init /\ [][NextGate]_vars

\* ------------------------------------------------------------------------
\* Properties
\* ------------------------------------------------------------------------

Terminal == {"APPROVED", "REJECTED"}

\* The elements of a sequence.
Range(seq) == { seq[i] : i \in 1..Len(seq) }

\* How many elements of a sequence are in a set.
Count(seq, set) == Cardinality({ i \in 1..Len(seq) : seq[i] \in set })

\* The two actions of the approval link.
LinkActions == {"approve", "reject"}

\* The stored hash that belongs to a link action.
HashFor(row, action) ==
    IF action = "approve" THEN row.approve_token_hash ELSE row.reject_token_hash

\* The status that belongs to a link action.
StatusFor(action) ==
    IF action = "approve" THEN "APPROVED" ELSE "REJECTED"

\* The invocations of send_decision_notifications for an id, in a list.
NotifiedFor(list, aid) ==
    {i \in 1..Len(list) : list[i].a_row.application_id = aid}

\* The step is a process_action call that follows a process_action call
\* (the clock may have advanced in between).
TwoCalls == ret.op = "process_action" /\ ret'.op = "process_action"

\* C1: a row is created PENDING; its status is always PENDING, APPROVED or
\* REJECTED, and the only changes of status are PENDING -> APPROVED and
\* PENDING -> REJECTED: a decided row never changes status again.
C1_StatusLifecycle ==
    [][\A a \in AppIds :
          /\ (a \in DOMAIN apps' /\ a \notin DOMAIN apps) => apps'[a].status = "PENDING"
          /\ a \in DOMAIN apps =>
                /\ a \in DOMAIN apps'
                /\ apps'[a].status \in {"PENDING", "APPROVED", "REJECTED"}
                /\ apps'[a].status # apps[a].status => apps[a].status = "PENDING"]_vars

\* A REJECTED row has just been presented a matching, unexpired token and
\* is still REJECTED.
C1_Witness ==
    /\ ret.op = "process_action"
    /\ ret.aid \in DOMAIN apps
    /\ apps[ret.aid].status = "REJECTED"
    /\ call.status = "REJECTED" /\ call.matched /\ ~call.expired

\* C2: an approve call with the approve token on a PENDING row, not after
\* the deadline, sets APPROVED and returns the success message; every call
\* on an APPROVED row with the approve or the reject token (either action)
\* returns the already-processed message and changes neither the row nor
\* the notifications.
C2_ApproveOnce ==
    [][(ret'.op = "process_action" /\ now' = now /\ ret'.aid \in DOMAIN apps) =>
         LET aid == ret'.aid
             row == apps[aid]
         IN  \A token \in Tokens, note \in Notes :
               /\ ( /\ row.status = "PENDING"
                    /\ now <= row.token_expires_at
                    /\ _sha256(token) = row.approve_token_hash
                    /\ process_action(aid, token, "approve", note) )
                  => /\ apps'[aid].status = "APPROVED"
                     /\ ret'.msg = "Leave application approved."
               /\ \A action \in LinkActions :
                    ( /\ row.status = "APPROVED"
                      /\ _sha256(token) \in {row.approve_token_hash, row.reject_token_hash}
                      /\ process_action(aid, token, action, note) )
                    => /\ ret'.msg = "This leave application has already been processed."
                       /\ apps' = apps /\ log' = log /\ notified' = notified]_vars

\* An APPROVED row has been presented a matching token again and the call
\* returned the already-processed message.
C2_Witness ==
    /\ ret.op = "process_action"
    /\ ret.msg = "This leave application has already been processed."
    /\ ret.aid \in DOMAIN apps
    /\ apps[ret.aid].status = "APPROVED"
    /\ apps[ret.aid].decided_at # NULL
    /\ call.status = "APPROVED" /\ call.matched

\* C3: a reject call with the reject token and note n on a PENDING,
\* unexpired row sets REJECTED and decided_at and invokes
\* send_decision_notifications with the row as re-read, REJECTED and n; an
\* approve call that passes hands over None as the note; an approve call
\* with the approve token on a REJECTED row returns the already-processed
\* message and leaves the status REJECTED.
C3_RejectWithNote ==
    [][(ret'.op = "process_action" /\ now' = now /\ ret'.aid \in DOMAIN apps) =>
         LET aid == ret'.aid
             row == apps[aid]
             open == row.status = "PENDING" /\ now <= row.token_expires_at
         IN  \A token \in Tokens, note \in Notes :
               /\ ( /\ open
                    /\ _sha256(token) = row.reject_token_hash
                    /\ process_action(aid, token, "reject", note) )
                  => /\ apps'[aid].status = "REJECTED"
                     /\ apps'[aid].decided_at = <<now>>
                     /\ notified' = Append(notified, [a_row |-> apps'[aid], status |-> "REJECTED",
                                                      rejection_note |-> note])
               /\ ( /\ open
                    /\ _sha256(token) = row.approve_token_hash
                    /\ process_action(aid, token, "approve", note) )
                  => notified' = Append(notified, [a_row |-> apps'[aid], status |-> "APPROVED",
                                                   rejection_note |-> NULL])
               /\ ( /\ row.status = "REJECTED"
                    /\ _sha256(token) = row.approve_token_hash
                    /\ process_action(aid, token, "approve", note) )
                  => /\ ret'.msg = "This leave application has already been processed."
                     /\ apps'[aid].status = "REJECTED"]_vars

\* A row was rejected with the note "doctor's note pending", the note went
\* to send_decision_notifications, and a later call on the row with a
\* matching token was turned away.
C3_Witness ==
    /\ ret.op = "process_action"
    /\ ret.msg = "This leave application has already been processed."
    /\ call.status = "REJECTED" /\ call.matched
    /\ \E i \in 1..Len(notified) :
          /\ notified[i].a_row.application_id = ret.aid
          /\ notified[i].status = "REJECTED"
          /\ notified[i].a_row.status = "REJECTED"
          /\ notified[i].rejection_note = <<"doctor's note pending">>

\* C4: a call writes a row only if the row is PENDING and the time is not
\* after token_expires_at, and only if no call wrote that row before:
\* each row is decided, and its notifications invoked, at most once.
C4_SingleDecision ==
    [][\A aid \in DOMAIN apps :
          /\ apps'[aid] # apps[aid] =>
                /\ apps[aid].status = "PENDING"
                /\ now <= apps[aid].token_expires_at
                /\ apps[aid].decided_at = NULL
                /\ NotifiedFor(notified, aid) = {}
          /\ Cardinality(NotifiedFor(notified', aid)) <= 1]_vars

\* Both rows are decided, each by one call, and a further call with a
\* matching token before the deadline has been turned away.
C4_Witness ==
    /\ \A a \in AppIds : a \in DOMAIN apps /\ apps[a].status \in Terminal
    /\ Len(notified) = Cardinality(AppIds)
    /\ ret.op = "process_action"
    /\ call.status \in Terminal /\ call.matched /\ ~call.expired

\* C5: an approve or reject call whose token's digest differs from the
\* stored hash of the requested action changes no row, invokes no
\* notification and appends nothing to notifications_log.
C5_WrongTokenNoMutation ==
    [][(ret'.op = "process_action" /\ now' = now /\ ret'.aid \in DOMAIN apps) =>
         LET aid == ret'.aid
         IN  \A token \in Tokens, action \in LinkActions, note \in Notes :
               ( /\ _sha256(token) # HashFor(apps[aid], action)
                 /\ process_action(aid, token, action, note) )
               => (apps' = apps /\ log' = log /\ notified' = notified)]_vars

\* A PENDING, unexpired row has been presented a token that does not match
\* and is still PENDING.
C5_Witness ==
    /\ ret.op = "process_action"
    /\ ret.aid \in DOMAIN apps
    /\ apps[ret.aid].status = "PENDING"
    /\ call.status = "PENDING" /\ ~call.expired /\ ~call.matched

\* C6: for a PENDING row and the token of the requested action, the call is
\* turned away as expired exactly when the time is after token_expires_at:
\* after the deadline nothing changes, at the deadline and before it the
\* status becomes that of the action.
C6_ExpiryStrict ==
    [][(ret'.op = "process_action" /\ now' = now /\ ret'.aid \in DOMAIN apps) =>
         LET aid == ret'.aid
             row == apps[aid]
         IN  \A token \in Tokens, action \in LinkActions, note \in Notes :
               ( /\ row.status = "PENDING"
                 /\ _sha256(token) = HashFor(row, action)
                 /\ process_action(aid, token, action, note) )
               => IF now > row.token_expires_at
                    THEN apps' = apps /\ log' = log /\ notified' = notified
                    ELSE apps'[aid].status = StatusFor(action)]_vars

\* A row was decided at the very time of its deadline, and another row,
\* presented a matching token after its deadline, is still PENDING.
C6_Witness ==
    /\ \E a \in DOMAIN apps :
          /\ apps[a].status \in Terminal
          /\ apps[a].decided_at = <<apps[a].token_expires_at>>
    /\ ret.op = "process_action"
    /\ ret.aid \in DOMAIN apps
    /\ apps[ret.aid].status = "PENDING"
    /\ call.status = "PENDING" /\ call.expired /\ call.matched

\* The cases C7 speaks of: no row, a decided row, an expired deadline, a
\* token that does not match.
Generic(c) ==
    c.status = "ABSENT" \/ c.status \in Terminal \/ c.expired \/ ~c.matched

\* The check that turns a call away, by the order of the checks.
Group(c) ==
    IF c.status = "ABSENT" THEN "not found"
    ELSE IF c.status \in Terminal THEN "decided"
    ELSE "stale"

Stale(c) ==
    c.status = "PENDING" /\ (c.expired \/ ~c.matched)

\* C8: on PENDING rows, a call turned away for its expired deadline and a
\* call turned away for its token return the same message.
C8_StaleSameMessage ==
    [][(TwoCalls /\ Stale(call) /\ Stale(call')) => ret'.msg = ret.msg]_vars

\* A PENDING row has been presented the matching token after its deadline,
\* so that only the deadline turned the call away.
C8_Witness ==
    /\ ret.op = "process_action"
    /\ call.status = "PENDING" /\ call.expired /\ call.matched
    /\ ret.msg = "This action has already been processed or the token has expired."

\* C9: any two calls on decided rows return the same message, whatever the
\* terminal status, the token and the action, and neither changes a row or
\* the notifications.
C9_TerminalSameResult ==
    [][(TwoCalls /\ call.status \in Terminal /\ call'.status \in Terminal)
         => /\ ret'.msg = ret.msg
            /\ apps' = apps /\ log' = log /\ notified' = notified]_vars

\* One row is APPROVED, another REJECTED, and the REJECTED one has just
\* been presented a token.
C9_Witness ==
    /\ ret.op = "process_action"
    /\ call.status = "REJECTED"
    /\ \E a \in DOMAIN apps : apps[a].status = "APPROVED"
    /\ \E a \in DOMAIN apps : apps[a].status = "REJECTED"

\* C10: a call for an id without a row returns the not-found message,
\* creates and changes no row, invokes no notification and appends nothing
\* to notifications_log.
C10_NotFoundNoEffect ==
    [][(ret'.op = "process_action" /\ now' = now /\ ret'.aid \notin DOMAIN apps) =>
         \A token \in Tokens, action \in Actions, note \in Notes :
            process_action(ret'.aid, token, action, note)
            => /\ ret'.msg = "Application not found."
               /\ apps' = apps /\ log' = log /\ notified' = notified]_vars

\* A call for an unknown id has returned while the store holds another row
\* and the log holds entries.
C10_Witness ==
    /\ ret.op = "process_action"
    /\ ret.aid \notin DOMAIN apps
    /\ call.status = "ABSENT"
    /\ DOMAIN apps # {}
    /\ Len(log) > 0

\* C12: insert_application for an application_id that already has a row
\* fails with an error and leaves every row as it was, also when the
\* existing row is APPROVED or REJECTED.
C12_DuplicateInsertRejected ==
    [][(ret'.op = "insert_application" /\ now' = now /\ ret'.aid \in DOMAIN apps) =>
         \A pair \in IssuedPairs, exp \in Deadlines, payload \in Payloads(ret'.aid) :
            insert_application(payload, ret'.aid, _sha256(pair[1]), _sha256(pair[2]), exp)
            => /\ ret'.msg = "IntegrityError"
               /\ apps' = apps
               /\ writes' = writes]_vars

\* An insert for the id of a decided row has failed.
C12_Witness ==
    /\ ret.op = "insert_application"
    /\ ret.msg = "IntegrityError"
    /\ ret.aid \in DOMAIN apps
    /\ apps[ret.aid].status \in Terminal

\* C13: under sequential operation decided_at and decided_by are unset
\* exactly when the status is PENDING, they are set in the step that changes
\* the status, and once set no later call changes them.
C13_DecisionStamp ==
    /\ [](\A aid \in DOMAIN apps :
            /\ (apps[aid].status = "PENDING") <=> (apps[aid].decided_at = NULL)
            /\ (apps[aid].decided_at = NULL) <=> (apps[aid].decided_by = NULL))
    /\ [][\A aid \in DOMAIN apps :
            /\ apps'[aid].status # apps[aid].status
                 => /\ apps[aid].decided_at = NULL /\ apps[aid].decided_by = NULL
                    /\ apps'[aid].decided_at = <<now>>
                    /\ apps'[aid].decided_by = <<ADMIN_EMAIL>>
            /\ apps[aid].decided_at # NULL
                 => /\ apps'[aid].decided_at = apps[aid].decided_at
                    /\ apps'[aid].decided_by = apps[aid].decided_by]_vars

\* A decided row has met a later call with its own valid token at a later
\* time, and still carries the stamp of its decision.
C13_Witness ==
    /\ ret.op = "process_action"
    /\ ret.msg = MsgProcessed
    /\ call.matched
    /\ ret.aid \in DOMAIN apps
    /\ apps[ret.aid].decided_at # NULL
    /\ apps[ret.aid].decided_at # <<now>>
    /\ apps[ret.aid].decided_by = <<ADMIN_EMAIL>>

\* C17: when the decision e-mails cannot be delivered (SMTP settings
\* missing or unusable, or the send raising), the status transition stays,
\* process_action returns its success message, every recipient of the
\* fan-out is still attempted in order, and each failure is one
\* notifications_log entry.
C17_DeliveryFailureKeepsDecision ==
    [][(ret'.op = "process_action" /\ now' = now /\ smtp # "host"
        /\ notified' # notified /\ ret'.aid \in DOMAIN apps) =>
         LET aid == ret'.aid
             a_row == apps'[aid]
             mails == DecisionMails(a_row, a_row.status)
         IN  /\ apps[aid].status = "PENDING"
             /\ a_row.status \in Terminal
             /\ ret'.msg = MsgDone(a_row.status)
             /\ Len(log') = Len(log) + Len(mails)
             /\ SubSeq(log', 1, Len(log)) = log
             /\ \A i \in 1..Len(mails) :
                    LET e == log'[Len(log) + i]
                    IN  /\ e.application_id = aid
                        /\ e.channel = mails[i][1]
                        /\ e.recipient = mails[i][2]
                        /\ \/ e.status = "SKIPPED_NO_SMTP"
                           \/ e.status = "FAILED" /\ e.error # NULL]_vars

\* An approval whose four sends all raised has returned its success message.
C17_Witness ==
    /\ smtp = "down"
    /\ ret.op = "process_action"
    /\ ret.msg = MsgDone("APPROVED")
    /\ ret.aid \in DOMAIN apps
    /\ apps[ret.aid].status = "APPROVED"
    /\ Len(log) = 4
    /\ \A i \in 1..4 : log[i].status = "FAILED"

\* C11: when insert_application returns normally, get_application returns
\* the row of that id with status PENDING, a non-empty submitted_at and no
\* decided_at or decided_by; when the INSERT returned and the read-back does
\* not show the id, PENDING and a non-empty submitted_at, insert_application
\* raises RuntimeError.
C11_InsertVerified ==
    [][(ret'.op = "insert_application" /\ now' = now /\ ret'.aid \notin DOMAIN apps) =>
         LET aid == ret'.aid
             got == get_application(ret.aid)'
         IN  /\ ret'.msg = "ok"
                  => /\ got # <<>>
                     /\ got[1].application_id = aid
                     /\ got[1].status = "PENDING"
                     /\ got[1].submitted_at = <<now>>
                     /\ got[1].decided_at = NULL
                     /\ got[1].decided_by = NULL
             /\ (did'[1] = "INSERT" /\ ~ReadBackOk(got, aid))
                  => ret'.msg = "RuntimeError"]_vars

\* An insert whose row was not stored has raised RuntimeError, after an
\* insert that returned normally.
C11_Witness ==
    /\ ret.op = "insert_application"
    /\ ret.msg = "RuntimeError"
    /\ get_application(ret.aid) = <<>>
    /\ \E aid \in DOMAIN apps : apps[aid].status = "PENDING"

\* C18: when the status UPDATE of process_action fails, the error reaches
\* the caller in place of a message, the UPDATE was attempted once, the
\* notifications are not invoked, and rows, log and notifications stay as
\* they were.
C18_UpdateFailureFatal ==
    /\ []((ret.op = "process_action" /\ "UPDATE raised" \in Range(did)) =>
            /\ ret.msg = "OperationalError"
            /\ ret.msg \notin {MsgDone("APPROVED"), MsgDone("REJECTED")}
            /\ Count(did, {"UPDATE", "UPDATE raised"}) = 1
            /\ "notify" \notin Range(did))
    /\ [][(ret'.op = "process_action" /\ now' = now /\ "UPDATE raised" \in Range(did')) =>
            (apps' = apps /\ log' = log /\ notified' = notified /\ writes' = writes)]_vars

\* The UPDATE of a call that passed every check has failed, and the row is
\* still PENDING.
C18_Witness ==
    /\ ret.op = "process_action"
    /\ "UPDATE raised" \in Range(did)
    /\ call.status = "PENDING" /\ call.matched /\ ~call.expired
    /\ ret.aid \in DOMAIN apps
    /\ apps[ret.aid].status = "PENDING"
    /\ notified = <<>>

\* The events of a call in which insert_application raised.
InsertRaised(d) == "INSERT raised" \in Range(d) \/ "raise" \in Range(d)

\* C19: when insert_application raises in submission_form, the form reports
\* the failure and stops: send_admin_review_email is not called, nothing is
\* logged and no success message is shown; the admin review e-mail is sent
\* only in a run whose insert_application returned with the row stored as
\* PENDING.
C19_NoReviewMailWithoutRow ==
    /\ []((ret.op = "submission_form" /\ InsertRaised(did)) =>
            /\ ret.msg = MsgPersistFailed
            /\ "send_admin_review_email" \notin Range(did))
    /\ [][(ret'.op = "submission_form" /\ now' = now) =>
            /\ InsertRaised(did') => (log' = log /\ apps' = apps)
            /\ log' # log =>
                 LET aid == ret'.aid
                 IN  /\ ~InsertRaised(did')
                     /\ SubSeq(did', 1, 4) = <<"INSERT", "SELECT", "close", "send_admin_review_email">>
                     /\ aid \notin DOMAIN apps
                     /\ aid \in DOMAIN apps'
                     /\ apps'[aid].status = "PENDING"
                     /\ apps'[aid].submitted_at = <<now>>
                     /\ Len(log') = Len(log) + 1
                     /\ log'[Len(log')].channel = "admin"
                     /\ log'[Len(log')].application_id = aid]_vars

\* A submission whose insert was not stored has been reported as failed,
\* with no e-mail logged.
C19_Witness ==
    /\ ret.op = "submission_form"
    /\ ret.msg = MsgPersistFailed
    /\ "raise" \in Range(did)
    /\ apps = <<>>
    /\ log = <<>>

\* C20 as stated: a row is written at creation and then at most once more,
\* by process_action.
C20_MutatedAtMostOnce ==
    \A aid \in DOMAIN writes :
        /\ Len(writes[aid]) <= 2
        /\ writes[aid][1] = "insert_application"
        /\ Len(writes[aid]) = 2 => writes[aid][2] = "process_action"

\* C20: a row is written by insert_application at creation, then at most
\* once by send_admin_review_email, which sets only admin_review_msgid, and
\* at most once by process_action, which writes the decision (status,
\* decided_at, decided_by) on a PENDING row and nothing else.
C20_WrittenOnceByEach ==
    /\ [](/\ DOMAIN writes = DOMAIN apps
          /\ \A aid \in DOMAIN writes :
                /\ writes[aid] \in { <<"insert_application">>,
                                      <<"insert_application", "send_admin_review_email">>,
                                      <<"insert_application", "process_action">>,
                                      <<"insert_application", "send_admin_review_email",
                                        "process_action">> }
                /\ ("send_admin_review_email" \in Range(writes[aid]))
                     <=> (apps[aid].admin_review_msgid # NULL)
                /\ ("process_action" \in Range(writes[aid]))
                     <=> (apps[aid].status \in Terminal))
    /\ [][\A aid \in DOMAIN apps' :
            IF aid \notin DOMAIN apps
              THEN /\ ret'.op = "submission_form"
                   /\ apps'[aid].status = "PENDING"
                   /\ apps'[aid].decided_at = NULL
                   /\ apps'[aid].decided_by = NULL
              ELSE apps'[aid] # apps[aid] =>
                     /\ ret'.op = "process_action"
                     /\ apps[aid].status = "PENDING"
                     /\ "process_action" \notin Range(writes[aid])
                     /\ writes'[aid] = Append(writes[aid], "process_action")
                     /\ apps'[aid] = Decided(apps[aid], apps'[aid].status)]_vars

\* A row has been written three times: created, given the Message-ID of the
\* admin review e-mail, and decided.
C20_Witness ==
    \E aid \in DOMAIN writes :
        /\ writes[aid] = <<"insert_application", "send_admin_review_email", "process_action">>
        /\ apps[aid].status \in Terminal
        /\ apps[aid].admin_review_msgid # NULL

\* The callers that have entered process_action.
Entered == { p \in Procs : procs[p].pc # "idle" }

\* The callers whose call passed every check on the row it read.
Passed == { p \in Entered : procs[p].row # <<>> /\ Stopped(procs[p].row, procs[p].token, procs[p].action) = NULL
                              /\ procs[p].updated }

\* How many times process_action wrote the row of an id.
Decisions(aid) == Count(writes[aid], {"process_action"})

\* C14 as stated: in every interleaving of concurrent process_action calls
\* a stored APPROVED or REJECTED status is never changed by a later write
\* and decided_at is stamped once.
C14_TerminalUnderInterleaving ==
    /\ [][\A aid \in DOMAIN apps :
            apps[aid].status \in Terminal
              => /\ apps'[aid].status = apps[aid].status
                 /\ apps'[aid].decided_at = apps[aid].decided_at]_vars
    /\ [](\A aid \in DOMAIN writes : Decisions(aid) <= 1)

\* C15: two callers with the same valid token for the same PENDING
\* application that both read PENDING and pass every check before either
\* writes both execute the UPDATE and both invoke
\* send_decision_notifications: the row is written twice and the
\* notifications go out twice.
C15_DoubleNotification ==
    \A p \in Passed, q \in Passed :
        ( /\ p # q
          /\ procs[p].aid = procs[q].aid
          /\ procs[p].token = procs[q].token
          /\ procs[p].action = procs[q].action
          /\ procs[p].row[1].status = "PENDING" /\ procs[q].row[1].status = "PENDING"
          /\ procs[p].pc = "done" /\ procs[q].pc = "done" )
        => /\ Decisions(procs[p].aid) = 2
           /\ procs[p].notified /\ procs[q].notified
           /\ Cardinality(NotifiedFor(notified, procs[p].aid)) = 2
           /\ Len(log) = 2 * Len(DecisionMails(apps[procs[p].aid], NewStatus(procs[p].action)))
           /\ procs[p].msg = <<MsgDone(NewStatus(procs[p].action))>>
           /\ procs[q].msg = procs[p].msg

\* Both callers presented the approve token, both read PENDING, and both
\* calls have returned after two sets of approval e-mails were sent.
C15_Witness ==
    /\ smtp = "host"
    /\ \A p \in Procs :
          /\ procs[p].pc = "done"
          /\ procs[p].token = "t1" /\ procs[p].action = "approve"
          /\ procs[p].row # <<>>
          /\ procs[p].row[1].status = "PENDING"
          /\ procs[p].notified
    /\ Len(notified) = 2
    /\ Len(log) = 8
    /\ \A i \in 1..8 : log[i].status = "SENT"

\* Every caller entered while no other call was under way.
Sequential == \A p \in Entered : procs[p].alone

\* C16: process_action invokes send_decision_notifications only after its
\* UPDATE was written and its connection closed, with the row it re-read
\* after the update; never in a call stopped as not found, already
\* processed, expired or mismatched; and under sequential operation at most
\* once per application.
C16_NotifyAfterCommit ==
    /\ [][\A p \in Entered :
            (~procs[p].notified /\ procs'[p].notified)
              => /\ procs[p].updated
                 /\ procs[p].con = "closed"
                 /\ procs[p].a_row # NULL
                 /\ procs[p].a_row[1].status \in Terminal
                 /\ notified' = Append(notified,
                                        [a_row |-> procs[p].a_row[1],
                                         status |-> NewStatus(procs[p].action),
                                         rejection_note |-> PassedNote(procs[p].action,
                                                                       procs[p].rejection_note)])]_vars
    /\ [][notified' # notified
            => \E p \in Entered : ~procs[p].notified /\ procs'[p].notified]_vars
    /\ [](\A p \in Entered :
            /\ procs[p].notified
                 => /\ procs[p].row # <<>>
                    /\ procs[p].row[1].status = "PENDING"
                    /\ procs[p].now <= procs[p].row[1].token_expires_at
                    /\ _sha256(procs[p].token) = HashFor(procs[p].row[1], procs[p].action)
            /\ (procs[p].pc = "done" /\ procs[p].msg \in { <<MsgNotFound>>, <<MsgProcessed>>,
                                                           <<MsgExpired>>, <<MsgMismatch>> })
                 => (~procs[p].notified /\ ~procs[p].updated))
    /\ [](Sequential => \A aid \in AppIds : Cardinality(NotifiedFor(notified, aid)) <= 1)

\* One call has decided the application and notified, and a later call with
\* the other valid link was stopped as already processed without notifying.
C16_Witness ==
    /\ Sequential
    /\ \E p \in Entered, q \in Entered :
          /\ procs[p].pc = "done" /\ procs[p].notified /\ procs[p].con = "closed"
          /\ procs[q].pc = "done" /\ procs[q].msg = <<MsgProcessed>> /\ ~procs[q].notified
          /\ _sha256(procs[q].token) = HashFor(procs[q].row[1], procs[q].action)
    /\ Len(notified) = 1

\* The columns of a row that the decision does not name.
Payload(row) ==
    [ application_id |-> row.application_id, submitted_at |-> row.submitted_at,
      reason |-> row.reason, student_email |-> row.student_email,
      father_email |-> row.father_email, mother_email |-> row.mother_email,
      approve_token_hash |-> row.approve_token_hash,
      reject_token_hash |-> row.reject_token_hash,
      token_expires_at |-> row.token_expires_at,
      admin_review_msgid |-> row.admin_review_msgid ]

\* C21: a successful process_action changes only status, decided_at and
\* decided_by of the row: the request and contact fields, both token
\* hashes, token_expires_at and submitted_at are after the call what they
\* were before it.
C21_DecisionFrame ==
    [][(ret'.op = "process_action" /\ ret'.aid \in DOMAIN apps
        /\ apps'[ret'.aid].status # apps[ret'.aid].status) =>
         LET before == apps[ret'.aid]
             after == apps'[ret'.aid]
         IN  /\ ret'.msg = MsgDone(after.status)
             /\ Payload(after) = Payload(before)
             /\ after.decided_at # before.decided_at
             /\ after.decided_by # before.decided_by
             /\ after = [before EXCEPT !.status = after.status,
                                       !.decided_at = after.decided_at,
                                       !.decided_by = after.decided_by]]_vars

\* A rejection has returned, and the row still carries both token hashes,
\* its deadline, its submission time and the Message-ID of the review mail.
C21_Witness ==
    /\ ret.op = "process_action"
    /\ ret.msg = MsgDone("REJECTED")
    /\ ret.aid \in DOMAIN apps
    /\ apps[ret.aid].status = "REJECTED"
    /\ apps[ret.aid].approve_token_hash = _sha256("t1")
    /\ apps[ret.aid].reject_token_hash = _sha256("t2")
    /\ apps[ret.aid].submitted_at # <<now>>
    /\ apps[ret.aid].reason = "family function"
    /\ apps[ret.aid].admin_review_msgid # NULL

\* C22: notifications_log is append-only: every step of the program leaves
\* the entries already in the log as they are and in place, so the log
\* changes only by growing at its end.
C22_LogAppendOnly ==
    [][/\ Len(log') >= Len(log)
       /\ SubSeq(log', 1, Len(log)) = log]_vars

\* The log holds the entry of an admin review mail followed by the entries
\* of a decision made at a later time.
C22_Witness ==
    /\ Len(log) > 1
    /\ log[1].channel = "admin"
    /\ log[2].channel = "admin_confirm"
    /\ log[2].sent_at > log[1].sent_at

\* The status send_html logs under each SMTP set-up.
LoggedStatus ==
    CASE smtp = "missing" -> "SKIPPED_NO_SMTP"
      [] smtp = "url"     -> "FAILED"
      [] smtp = "down"    -> "FAILED"
      [] smtp = "host"    -> "SENT"

\* C23: every call of send_html yields one notifications_log entry for the
\* given application, channel, recipient and subject: SKIPPED_NO_SMTP when
\* host or sender is missing, FAILED when the host is malformed or the send
\* raises, SENT when the send succeeds; ok is True exactly when the entry is
\* SENT and a message id is returned only then.  The call made by
\* send_admin_review_email grows the log by exactly that entry.
C23_OneEntryPerSend ==
    /\ [](\A to \in {ADMIN_EMAIL, SECURITY_EMAIL}, subject \in {"New Leave Application", "Approved Leave"},
             channel \in {"admin", "security"}, aid \in AppIds :
            LET r == send_html(to, subject, channel, aid)
            IN  /\ r.entry.application_id = aid
                /\ r.entry.channel = channel
                /\ r.entry.recipient = to
                /\ r.entry.subject = subject
                /\ r.entry.status = LoggedStatus
                /\ r.ok <=> (r.entry.status = "SENT")
                /\ (r.msgid # NULL) <=> r.ok)
    /\ [][(ret'.op = "submission_form" /\ now' = now
           /\ "send_admin_review_email" \in Range(did')) =>
            /\ Len(log') = Len(log) + 1
            /\ log'[Len(log')] = send_html(ADMIN_EMAIL, "New Leave Application", "admin",
                                            ret'.aid).entry
            /\ log'[Len(log')].status = LoggedStatus
            /\ (apps'[ret'.aid].admin_review_msgid # NULL) => (LoggedStatus = "SENT")]_vars

\* The admin review mail of a stored application met a host given as a URL:
\* one FAILED entry, and no Message-ID on the row.
C23_Witness ==
    /\ smtp = "url"
    /\ ret.op = "submission_form"
    /\ ret.msg = MsgSubmitted
    /\ Len(log) = 1
    /\ log[1].status = "FAILED"
    /\ log[1].error # NULL
    /\ log[1].recipient = ADMIN_EMAIL
    /\ apps[ret.aid].admin_review_msgid = NULL

\* The contact columns a row can carry: each parent e-mail present or not.
ContactRows ==
    [ application_id : {"A1"}, student_email : {"student1@woxsen.edu.in"},
      father_email : {"", "father@example.com"}, mother_email : {"", "mother@example.com"} ]

\* The channels and recipients of a fan-out as C24 words them.
FanOut(a_row, status) ==
    LET parents == {a_row.father_email, a_row.mother_email} \ {""}
        parent == IF parents = {} THEN <<>> ELSE << <<"parent", parents>> >>
    IN  << <<"admin_confirm", {ADMIN_EMAIL}>> >>
        \o (IF status = "APPROVED" THEN << <<"security", {SECURITY_EMAIL}>> >> ELSE <<>>)
        \o parent
        \o << <<"student", {a_row.student_email}>> >>

\* The entries are the fan-out for the row and status, in order.
IsFanOut(entries, a_row, status) ==
    LET f == FanOut(a_row, status)
    IN  /\ Len(entries) = Len(f)
        /\ \A i \in 1..Len(f) :
              /\ entries[i].channel = f[i][1]
              /\ entries[i].recipient \in f[i][2]
              /\ entries[i].application_id = a_row.application_id

\* C24: send_decision_notifications attempts, in this order, the admin
\* confirmation, security (approval only), the parent (only when a father or
\* mother e-mail is on the row) and the student; security is never notified
\* of a rejection, admin and student of every decision.  Each decision step
\* appends exactly these entries to the log.
C24_FanOutOrder ==
    /\ [](\A a_row \in ContactRows, status \in Terminal :
            LET entries == send_decision_notifications(a_row, status)
            IN  /\ IsFanOut(entries, a_row, status)
                /\ status = "REJECTED" => \A i \in 1..Len(entries) :
                                             entries[i].recipient # SECURITY_EMAIL
                /\ entries[1].recipient = ADMIN_EMAIL
                /\ entries[Len(entries)].recipient = a_row.student_email)
    /\ [][notified' # notified =>
            LET n == notified'[Len(notified')]
            IN  /\ Len(log') >= Len(log)
                /\ IsFanOut(SubSeq(log', Len(log) + 1, Len(log')), n.a_row, n.status)
                /\ n.status = n.a_row.status]_vars

\* A rejection was notified: after the entry of the review mail the log
\* holds admin confirmation, parent and student, and no entry for security.
C24_Witness ==
    /\ ret.op = "process_action"
    /\ ret.msg = MsgDone("REJECTED")
    /\ Len(log) = 4
    /\ log[1].channel = "admin"
    /\ log[2].channel = "admin_confirm"
    /\ log[3].channel = "parent" /\ log[3].recipient = "mother@example.com"
    /\ log[4].channel = "student"
    /\ \A i \in 1..4 : log[i].recipient # SECURITY_EMAIL

\* The action other than the one given.
OtherAction(action) == IF action = "approve" THEN "reject" ELSE "approve"

\* The callers that presented the valid token of the other action, on a
\* row whose two hashes differ.
Crossed ==
    { p \in Entered :
        /\ procs[p].row # <<>>
        /\ procs[p].action \in LinkActions
        /\ procs[p].row[1].approve_token_hash # procs[p].row[1].reject_token_hash
        /\ _sha256(procs[p].token) = HashFor(procs[p].row[1], OtherAction(procs[p].action)) }

\* C25: a token is bound to its action: on a row whose two hashes differ,
\* the approve token presented with 'reject' and the reject token presented
\* with 'approve' never get to the UPDATE, because the token is compared with
\* the stored hash of the requested action only.
C25_TokenBoundToAction ==
    /\ \A p \in Crossed :
          /\ procs[p].pc = "done"
          /\ ~procs[p].updated
          /\ ~procs[p].notified
          /\ procs[p].msg \in { <<MsgProcessed>>, <<MsgExpired>>, <<MsgMismatch>> }
    /\ \A aid \in DOMAIN apps :
          /\ Expected(apps[aid], "approve") = apps[aid].approve_token_hash
          /\ Expected(apps[aid], "reject") = apps[aid].reject_token_hash

\* One caller presented the approve token with 'reject' and the other the
\* reject token with 'approve', both before the deadline: both were turned
\* away and the application is PENDING.
C25_Witness ==
    /\ \E p \in Crossed, q \in Crossed :
          /\ procs[p].action = "reject" /\ procs[p].token = "t1"
          /\ procs[q].action = "approve" /\ procs[q].token = "t2"
          /\ procs[p].msg = <<MsgMismatch>> /\ procs[q].msg = <<MsgMismatch>>
          /\ procs[p].now <= procs[p].row[1].token_expires_at
    /\ apps["A1"].status = "PENDING"

\* C26: opening an approval link changes nothing by itself: process_action
\* is called only in a run on the approval route whose Confirm button was
\* clicked, that is with aid and token non-empty and action 'approve' or
\* 'reject'; with a parameter missing or another action the run is not on
\* the approval route, process_action is not called and the submission form
\* is shown.
C26_ConfirmBeforeAction ==
    /\ [](ret.op = "process_action"
            => /\ run.confirm /\ run.page = "confirm"
               /\ run.aid # "" /\ run.token # "" /\ run.action \in {"approve", "reject"}
               /\ ret.aid = run.aid)
    /\ []((run.page # "none" /\ ~(run.aid # "" /\ run.token # ""
                                   /\ run.action \in {"approve", "reject"}))
            => /\ run.page = "form"
               /\ ret.op = "submission_form")
    /\ []((run.page = "confirm" /\ ~run.confirm) => ret = ConfirmShown(run.aid))
    /\ [][(run'.page = "confirm" /\ ~run'.confirm)
            => UNCHANGED <<apps, log, notified, writes>>]_vars

\* The approve link of a PENDING application with its valid token was
\* opened before the deadline and not confirmed: the application is PENDING
\* and nothing but the review mail is logged.
C26_Witness ==
    /\ run.page = "confirm" /\ ~run.confirm
    /\ run.aid = "A1" /\ run.action = "approve" /\ run.token = "t1"
    /\ ret.op = "approval_route"
    /\ "A1" \in DOMAIN apps
    /\ apps["A1"].status = "PENDING"
    /\ now <= apps["A1"].token_expires_at
    /\ notified = <<>>
    /\ Len(log) = 1

\* C27: process_action and update_status update the one row of the given
\* application_id: a call for an application changes the row of no other
\* application, whatever token, action and time, stores no new row, and a
\* call for an id that has no row changes no row.
C27_SingleRowUpdate ==
    /\ [][ret'.op = "process_action" =>
            /\ DOMAIN apps' = DOMAIN apps
            /\ \A b \in DOMAIN apps \ {ret'.aid} : apps'[b] = apps[b]
            /\ ret'.aid \notin DOMAIN apps => apps' = apps]_vars
    /\ [](\A aid \in AppIds, new_status \in Terminal :
            LET t == update_status(apps, aid, new_status)
            IN  /\ DOMAIN t = DOMAIN apps
                /\ \A b \in DOMAIN apps \ {aid} : t[b] = apps[b]
                /\ aid \notin DOMAIN apps => t = apps
                /\ aid \in DOMAIN apps => t[aid] = Stamped(apps[aid], new_status, now))

\* A call has decided one application while the other, submitted earlier
\* with the same tokens, is PENDING.
C27_Witness ==
    /\ ret.op = "process_action"
    /\ ret.msg = MsgDone("APPROVED")
    /\ DOMAIN apps = AppIds
    /\ \E b \in AppIds \ {ret.aid} :
          /\ apps[b].status = "PENDING"
          /\ apps[b].approve_token_hash = apps[ret.aid].approve_token_hash
          /\ apps[b].decided_at = NULL

\* C28: process_action makes its checks in the order existence, terminal
\* status, expiry, token match and returns at the first that fails: a call
\* that read no row gets the not-found result; one that read a decided row
\* gets the already-processed result, also past the deadline or with a
\* wrong token; one that read a PENDING row past its deadline gets the
\* expired result, also with a wrong token; and only a call that read a
\* PENDING row in time gets the mismatch result.
C28_CheckOrder ==
    \A p \in Entered :
        LET me == procs[p]
        IN  /\ me.row = <<>> => me.msg = <<MsgNotFound>>
            /\ (me.row # <<>> /\ me.row[1].status \in Terminal) => me.msg = <<MsgProcessed>>
            /\ (me.row # <<>> /\ me.row[1].status = "PENDING"
                 /\ me.now > me.row[1].token_expires_at)
                  => (me.msg = <<MsgExpired>> /\ ~me.updated)
            /\ (me.row # <<>> /\ me.row[1].status = "PENDING"
                 /\ me.now <= me.row[1].token_expires_at
                 /\ _sha256(me.token) # HashFor(me.row[1], me.action))
                  => (me.msg = <<MsgMismatch>> /\ ~me.updated)

\* A caller met a decided application past its deadline with the token of
\* the other action, and got the already-processed result.
C28_Witness ==
    \E p \in Entered :
        /\ procs[p].row # <<>>
        /\ procs[p].row[1].status \in Terminal
        /\ procs[p].now > procs[p].row[1].token_expires_at
        /\ _sha256(procs[p].token) # HashFor(procs[p].row[1], procs[p].action)
        /\ procs[p].msg = <<MsgProcessed>>

\* C29: process_action writes APPROVED only for the action 'approve'; any
\* other action is handled as a rejection: its token is compared with
\* reject_token_hash and on a match REJECTED is written.  The status written
\* is APPROVED or REJECTED and nothing else.
C29_OnlyApproveApproves ==
    [][\A p \in Entered :
         (~procs[p].updated /\ procs'[p].updated) =>
            LET me == procs[p]
                written == apps'[me.aid].status
            IN  /\ written \in {"APPROVED", "REJECTED"}
                /\ (written = "APPROVED") <=> (me.action = "approve")
                /\ me.action = "approve"
                     => _sha256(me.token) = me.row[1].approve_token_hash
                /\ me.action # "approve"
                     => /\ _sha256(me.token) = me.row[1].reject_token_hash
                        /\ written = "REJECTED"]_vars

\* A call with the action 'deny' and the reject token has rejected the
\* application and returned the rejection message.
C29_Witness ==
    \E p \in Entered :
        /\ procs[p].action = "deny"
        /\ procs[p].token = "t2"
        /\ procs[p].updated
        /\ procs[p].msg = <<MsgDone("REJECTED")>>
        /\ apps[procs[p].aid].status = "REJECTED"

\* C30 as stated: in the out-gate request app, after a run in which all
\* validations passed and the preview was shown, the run triggered by a
\* click on 'Submit Out-Gate Request' appends one row to the request log and
\* shows the success message; and every row of the log is that of a request
\* whose validations passed.
C30_SubmitRecords ==
    /\ [][(gate.page = "preview" /\ gate'.click = "submit") =>
            /\ Len(gate'.rows) = Len(gate.rows) + 1
            /\ gate'.msg = GateSubmitted]_vars
    /\ [](\A i \in 1..Len(gate.rows) : validate_email(gate.rows[i].student_email))

====
